---- MODULE Spec2Model ----
(***************************************************************************)
(* scripts/validate-pr.py: validation of genesis registration files.       *)
(*                                                                         *)
(* Python values are modelled as follows.                                  *)
(*   - a TOML table is a function whose DOMAIN is the set of its keys, so  *)
(*     `k in table` is k \in DOMAIN table;                                 *)
(*   - None is the record None; the empty table {} is <<>>;                *)
(*   - an optional string (os.environ.get, the hrp of bech32_decode) is    *)
(*     <<>> for None and <<s>> for the string s;                           *)
(*   - the text of a numeric field is Dec(n) (a decimal literal of value   *)
(*     n), NaNText (the text "nan", which float() accepts) or NotDec (a    *)
(*     text float() rejects with ValueError);                              *)
(*   - a function that can raise returns the name of the exception         *)
(*     instead of "True"/"False".                                          *)
(***************************************************************************)
EXTENDS Integers, Sequences, FiniteSets, TLC

VARIABLES pc, environ, balances_file, changed_files, idx, flags, alias,
          stdout, balances_loads, runs, fault, toml, nam_balances, ret

vars == <<pc, environ, balances_file, changed_files, idx, flags, alias,
          stdout, balances_loads, runs, fault, toml, nam_balances, ret>>

main_vars == <<environ, balances_file, changed_files, idx, flags, alias,
               stdout, balances_loads, runs, fault>>

-----------------------------------------------------------------------------
(* Bounds of the model.                                                    *)

MaxEntries == 2
MaxThreshold == 2
MaxDec == 2
MaxFiles == 2

-----------------------------------------------------------------------------
(* Python values.                                                          *)

None == [NoneType |-> "None"]
EmptyDict == <<>>

Dec(n) == [t |-> "dec", n |-> n]
NaNText == [t |-> "nan", n |-> 0]
NotDec == [t |-> "str", n |-> 0]

\* float(x): defined for Dec and NaNText; raises ValueError on NotDec.  The
\* decimals of the model are small integers, which a float holds exactly, so
\* the value of float(Dec(n)) is n.
float_raises(x) == x.t = "str"
float(x) == [nan |-> (x.t = "nan"), v |-> x.n]
FloatZero == [nan |-> FALSE, v |-> 0]

\* IEEE comparisons: every comparison with NaN is false.
FloatEq(a, b) == ~a.nan /\ ~b.nan /\ a.v = b.v
FloatGe(a, b) == ~a.nan /\ ~b.nan /\ a.v >= b.v
FloatLe(a, b) == ~a.nan /\ ~b.nan /\ a.v <= b.v

\* Without(d, k): the table d with key k removed.
Without(d, k) == [x \in DOMAIN d \ {k} |-> d[x]]

\* Sequences over S of length at most n.
SeqUpTo(S, n) == UNION {[1..k -> S] : k \in 0..n}

-----------------------------------------------------------------------------
(* bech32m.bech32_decode, by its result on the addresses of the model: the *)
(* human-readable part of a well-formed address, None for a string that is *)
(* not bech32.                                                             *)

TNAM_A == "tnam1qa"
TNAM_B == "tnam1qb"
TKPNAM_A == "tkpnam1qa"
TKPNAM_B == "tkpnam1qb"
COSMOS_A == "cosmos1qa"
NOT_BECH32 == "not-bech32"

bech32_decode(address) ==
    CASE address \in {TNAM_A, TNAM_B} -> <<"tnam">>
      [] address \in {TKPNAM_A, TKPNAM_B} -> <<"tkpnam">>
      [] address = COSMOS_A -> <<"cosmos">>
      [] OTHER -> <<>>

\* re.search(EMAIL_PATTERN, email) on the emails of the model.
EMAIL_OK == "alice@example.com"
EMAIL_NO_AT == "alice.example.com"
EMAIL_NO_DOT == "alice@example"

email_matches(email) == email = EMAIL_OK

-----------------------------------------------------------------------------
(* check_if_account_is_valid                                               *)

\* One iteration of the loop over established_account: "False" when the
\* iteration returns False, "continue" when it falls through to the next.
account_threshold_lenient(account) ==
    IF \E field \in {"vp", "threshold", "public_keys"} : field \notin DOMAIN account
    THEN "False"
    ELSE IF account.vp # "vp_user" THEN "False"
    ELSE IF Len(account.public_keys) < account.threshold THEN "False"
    ELSE IF account.threshold < 0 THEN "False"
    ELSE IF \E i \in 1..Len(account.public_keys) :
                bech32_decode(account.public_keys[i]) # <<"tnam">>
         THEN "False"
    ELSE "continue"

account_entry(account) ==
    IF \E field \in {"vp", "threshold", "public_keys"} : field \notin DOMAIN account
    THEN "False"
    ELSE IF account.vp # "vp_user" THEN "False"
    ELSE IF Len(account.public_keys) < account.threshold THEN "False"
    ELSE IF account.threshold <= 0 THEN "False"
    ELSE IF \E i \in 1..Len(account.public_keys) :
                bech32_decode(account.public_keys[i]) # <<"tnam">>
         THEN "False"
    ELSE "continue"

RECURSIVE account_loop(_, _)
account_loop(accounts, i) ==
    IF i > Len(accounts) THEN "True"
    ELSE IF account_entry(accounts[i]) = "False" THEN "False"
    ELSE account_loop(accounts, i + 1)

check_if_account_is_valid(accounts_toml) ==
    IF accounts_toml = None THEN "TypeError"
    ELSE IF "established_account" \notin DOMAIN accounts_toml THEN "KeyError"
    ELSE account_loop(accounts_toml.established_account, 1)

-----------------------------------------------------------------------------
(* check_if_validator_is_valid                                             *)

VALIDATOR_FIELDS ==
    {"consensus_key", "protocol_key", "tendermint_node_key", "eth_hot_key",
     "eth_cold_key", "metadata", "signatures", "address", "vp",
     "commission_rate", "max_commission_rate_change"}

KEY_SLOTS ==
    {"consensus_key", "protocol_key", "tendermint_node_key", "eth_hot_key",
     "eth_cold_key"}

\* One iteration of the loop over validator_account: "False", "ValueError"
\* (float() of a rate raised) or "continue".
validator_entry(validator) ==
    IF \E field \in VALIDATOR_FIELDS : field \notin DOMAIN validator
    THEN "False"
    ELSE IF \E field \in KEY_SLOTS : \E sub_field \in {"pk", "authorization"} :
                sub_field \notin DOMAIN validator[field]
    THEN "False"
    ELSE IF "email" \notin DOMAIN validator.metadata THEN "False"
    ELSE IF Len(validator.signatures) <= 0 THEN "False"
    ELSE IF float_raises(validator.commission_rate) THEN "ValueError"
    ELSE IF float_raises(validator.max_commission_rate_change) THEN "ValueError"
    ELSE IF validator.vp # "vp_user" THEN "False"
    ELSE IF ~(/\ FloatLe(FloatZero, float(validator.commission_rate))
              /\ FloatLe(float(validator.commission_rate), [nan |-> FALSE, v |-> 1]))
    THEN "False"
    ELSE IF ~(/\ FloatLe(FloatZero, float(validator.max_commission_rate_change))
              /\ FloatLe(float(validator.max_commission_rate_change),
                         [nan |-> FALSE, v |-> 1]))
    THEN "False"
    ELSE IF ~email_matches(validator.metadata.email) THEN "False"
    ELSE IF bech32_decode(validator.address) # <<"tnam">> THEN "False"
    ELSE "continue"

RECURSIVE validator_loop(_, _)
validator_loop(validators, i) ==
    IF i > Len(validators) THEN "True"
    ELSE IF validator_entry(validators[i]) # "continue"
         THEN validator_entry(validators[i])
    ELSE validator_loop(validators, i + 1)

check_if_validator_is_valid(validators_toml) ==
    IF check_if_account_is_valid(validators_toml) # "True"
    THEN check_if_account_is_valid(validators_toml)
    ELSE IF "bond" \in DOMAIN validators_toml THEN "False"
    ELSE IF "validator_account" \notin DOMAIN validators_toml THEN "KeyError"
    ELSE validator_loop(validators_toml.validator_account, 1)

-----------------------------------------------------------------------------
(* check_if_bond_is_valid                                                  *)

\* balance = float(balances[source]) if source in balances else 0
balance_of(source, balances) ==
    IF source \in DOMAIN balances THEN float(balances[source]) ELSE FloatZero

\* if balance == 0 or not balance >= amount: return False
balance_rejects_strict(balance, amount) ==
    FloatEq(balance, FloatZero) \/ ~(~balance.nan /\ ~amount.nan /\ balance.v > amount.v)

balance_rejects(balance, amount) ==
    FloatEq(balance, FloatZero) \/ ~FloatGe(balance, amount)

\* One iteration of the loop over bond: "False", "ValueError" or "continue".
bond_entry(bond, balances) ==
    IF \E field \in {"source", "validator", "amount", "signatures"} :
            field \notin DOMAIN bond
    THEN "False"
    ELSE IF Len(bond.signatures) <= 0 THEN "False"
    ELSE IF float_raises(bond.amount) THEN "ValueError"
    ELSE IF balance_rejects(balance_of(bond.source, balances), float(bond.amount))
    THEN "False"
    ELSE IF bech32_decode(bond.source) # <<"tkpnam">> THEN "False"
    ELSE IF bech32_decode(bond.validator) # <<"tnam">> THEN "False"
    ELSE "continue"

RECURSIVE bond_loop(_, _, _)
bond_loop(bonds, balances, i) ==
    IF i > Len(bonds) THEN "True"
    ELSE IF bond_entry(bonds[i], balances) # "continue"
         THEN bond_entry(bonds[i], balances)
    ELSE bond_loop(bonds, balances, i + 1)

check_if_bond_is_valid(bonds_toml, balances) ==
    IF bonds_toml = None THEN "TypeError"
    ELSE IF "bond" \notin DOMAIN bonds_toml THEN "KeyError"
    ELSE bond_loop(bonds_toml.bond, balances, 1)

-----------------------------------------------------------------------------
(* Inputs of the validators: the established_account, validator_account    *)
(* and bond entries the model draws record files from.                     *)

VALID_ACCOUNT == [vp |-> "vp_user", threshold |-> 1, public_keys |-> <<TNAM_A>>]

KeyLists ==
    {<<>>, <<TNAM_A>>, <<COSMOS_A>>, <<NOT_BECH32>>, <<TNAM_A, TNAM_B>>,
     <<TNAM_A, COSMOS_A>>, <<COSMOS_A, TNAM_A>>}

Thresholds == {-1} \cup (0..MaxThreshold)

AccountEntries ==
    [vp : {"vp_user", "vp_implicit"}, threshold : Thresholds, public_keys : KeyLists]
    \cup {Without(VALID_ACCOUNT, f) : f \in {"vp", "threshold", "public_keys"}}

\* The texts of a numeric field.
DecTexts == {Dec(n) : n \in (-1)..MaxDec} \cup {NaNText, NotDec}

VALID_BOND ==
    [source |-> TKPNAM_A, validator |-> TNAM_A, amount |-> Dec(1),
     signatures |-> <<"sig">>]

BondEntries ==
    {[VALID_BOND EXCEPT !.source = s, !.amount = a] :
        s \in {TKPNAM_A, TKPNAM_B, TNAM_A}, a \in DecTexts}
    \cup {[VALID_BOND EXCEPT !.validator = COSMOS_A],
          [VALID_BOND EXCEPT !.validator = NOT_BECH32],
          [VALID_BOND EXCEPT !.signatures = <<>>]}
    \cup {Without(VALID_BOND, f) : f \in {"source", "validator", "amount", "signatures"}}

\* The NAM sub-table of genesis/balances.toml: TKPNAM_A with any balance
\* from 0 or absent, TNAM_A with balance 1 or absent, TKPNAM_B always absent.
BalanceChoices(addr, texts) ==
    {<<>>} \cup {(addr :> b) : b \in texts}

BalancesTables ==
    {a @@ b : a \in BalanceChoices(TKPNAM_A, {Dec(n) : n \in 0..MaxDec}),
              b \in BalanceChoices(TNAM_A, {Dec(1)})}

KEY_TABLE == [pk |-> "pk", authorization |-> "sig"]

VALID_VALIDATOR ==
    [consensus_key |-> KEY_TABLE, protocol_key |-> KEY_TABLE,
     tendermint_node_key |-> KEY_TABLE, eth_hot_key |-> KEY_TABLE,
     eth_cold_key |-> KEY_TABLE, metadata |-> [email |-> EMAIL_OK],
     signatures |-> <<"sig">>, address |-> TNAM_A, vp |-> "vp_user",
     commission_rate |-> Dec(0), max_commission_rate_change |-> Dec(1)]

ValidatorEntries ==
    {[VALID_VALIDATOR EXCEPT !.commission_rate = r] : r \in DecTexts}
    \cup {[VALID_VALIDATOR EXCEPT !.max_commission_rate_change = r] : r \in DecTexts}
    \cup {Without(VALID_VALIDATOR, f) : f \in VALIDATOR_FIELDS}
    \cup {[VALID_VALIDATOR EXCEPT ![slot] = Without(KEY_TABLE, sub)] :
            slot \in KEY_SLOTS, sub \in {"pk", "authorization"}}
    \cup {[VALID_VALIDATOR EXCEPT !.metadata = <<>>],
          [VALID_VALIDATOR EXCEPT !.metadata = [email |-> EMAIL_NO_AT]],
          [VALID_VALIDATOR EXCEPT !.metadata = [email |-> EMAIL_NO_DOT]],
          [VALID_VALIDATOR EXCEPT !.signatures = <<>>],
          [VALID_VALIDATOR EXCEPT !.vp = "vp_implicit"],
          [VALID_VALIDATOR EXCEPT !.address = COSMOS_A],
          [VALID_VALIDATOR EXCEPT !.address = NOT_BECH32]}

\* The established_account part of a validator file: absent, empty, valid,
\* or holding an entry with threshold 0.
AccountParts ==
    {<<>>}
    \cup {[established_account |-> es] :
            es \in {<<>>, <<VALID_ACCOUNT>>,
                    <<[VALID_ACCOUNT EXCEPT !.threshold = 0]>>}}

\* The bond key of a validator file: absent, empty, or holding a bond.
BondParts == {<<>>, [bond |-> <<>>], [bond |-> <<VALID_BOND>>]}

-----------------------------------------------------------------------------
(* The validators applied to one record: the input is drawn in Init, the   *)
(* action calls the function and keeps what it returned or raised.         *)

IdleMain ==
    /\ environ = <<>>
    /\ balances_file = None
    /\ changed_files = <<>>
    /\ idx = 0
    /\ flags = <<>>
    /\ alias = <<>>
    /\ stdout = <<>>
    /\ balances_loads = 0
    /\ runs = <<>>
    /\ fault = ""

InitAccount ==
    /\ pc = "check_if_account_is_valid"
    /\ \/ toml \in {None, EmptyDict}
       \/ \E k \in 0..MaxEntries : \E es \in [1..k -> AccountEntries] :
             toml = [established_account |-> es]
    /\ nam_balances = <<>>
    /\ ret = ""
    /\ IdleMain

CallAccount ==
    /\ pc = "check_if_account_is_valid"
    /\ ret' = check_if_account_is_valid(toml)
    /\ pc' = "account_called"
    /\ UNCHANGED <<toml, nam_balances, main_vars>>

SpecAccount == InitAccount /\ [][CallAccount]_vars

InitValidator ==
    /\ pc = "check_if_validator_is_valid"
    /\ \/ toml = None
       \/ \E a \in AccountParts, b \in BondParts :
             \/ toml = a @@ b
             \/ \E k \in 0..MaxEntries : \E vs \in [1..k -> ValidatorEntries] :
                   toml = a @@ [validator_account |-> vs] @@ b
    /\ nam_balances = <<>>
    /\ ret = ""
    /\ IdleMain

CallValidator ==
    /\ pc = "check_if_validator_is_valid"
    /\ ret' = check_if_validator_is_valid(toml)
    /\ pc' = "validator_called"
    /\ UNCHANGED <<toml, nam_balances, main_vars>>

SpecValidator == InitValidator /\ [][CallValidator]_vars

InitBond ==
    /\ pc = "check_if_bond_is_valid"
    /\ \/ toml \in {None, EmptyDict}
       \/ \E k \in 0..MaxEntries : \E bs \in [1..k -> BondEntries] :
             toml = [bond |-> bs]
    /\ nam_balances \in BalancesTables
    /\ ret = ""
    /\ IdleMain

CallBond ==
    /\ pc = "check_if_bond_is_valid"
    /\ ret' = check_if_bond_is_valid(toml, nam_balances)
    /\ pc' = "bond_called"
    /\ UNCHANGED <<toml, nam_balances, main_vars>>

SpecBond == InitBond /\ [][CallBond]_vars

-----------------------------------------------------------------------------
(* main: the candidate files, the environment and the file contents.       *)

F_ACCOUNT == "transactions/alice-account.toml"
F_VALIDATOR == "transactions/alice-validator.toml"
F_BOND == "transactions/alice-bond.toml"
F_BOB_BOND == "transactions/bob-bond.toml"
F_NO_SUFFIX == "transactions/alice-bond_toml"
F_YML == "transactions/alice-yml-bond.toml"
F_README == "README.md"

Files == {F_ACCOUNT, F_VALIDATOR, F_BOND, F_BOB_BOND, F_NO_SUFFIX, F_YML, F_README}

\* re.search(FILE_NAME_PATTER, file): the "." of the pattern matches any
\* character, so F_NO_SUFFIX matches too.
matches_pattern(file) == file # F_README

\* alias.lower() in file.split('/')[1].split('.')[0].lower()
alias_in_file(a, file) ==
    a = "alice" /\ file \in {F_ACCOUNT, F_VALIDATOR, F_BOND, F_NO_SUFFIX, F_YML}

\* 'scripts' in file or 'yml' in file
scripts_or_yml(file) == file = F_YML

\* '-account.toml' in file, '-validator.toml' in file, '-bond.toml' in file
has_suffix(file, suffix) ==
    CASE suffix = "-account.toml" -> file = F_ACCOUNT
      [] suffix = "-validator.toml" -> file = F_VALIDATOR
      [] suffix = "-bond.toml" -> file \in {F_BOND, F_BOB_BOND, F_YML}

\* The lists git diff --name-only can print: distinct paths.
FileLists ==
    {fs \in SeqUpTo(Files, MaxFiles) :
        \A i, j \in 1..Len(fs) : i # j => fs[i] # fs[j]}

ENV_NAMES == {"CAN_ADD_VALIDATORS", "CAN_ADD_BONDS", "CAN_ADD_ACCOUNTS", "ALIAS"}

Environments ==
    {e \in [ENV_NAMES -> {<<>>, <<"">>, <<"true">>, <<"alice">>}] :
        /\ e["ALIAS"] \in {<<>>, <<"alice">>}
        /\ \A n \in ENV_NAMES \ {"ALIAS"} : e[n] \in {<<>>, <<"">>, <<"true">>}}

\* Python truth value of an optional string.
truthy(x) == x # <<>> /\ x[1] # ""

MAIN_BALANCES == (TKPNAM_A :> Dec(1))

\* genesis/balances.toml: unreadable (None), without the token table, or
\* holding the NAM table.
BalancesFiles == {None, EmptyDict, [token |-> [NAM |-> MAIN_BALANCES]]}

\* What read_unsafe_toml can return for a file of each kind: None when
\* toml.load raised, the parsed document otherwise.
AccountContents ==
    {None, EmptyDict,
     [established_account |-> <<VALID_ACCOUNT>>],
     [established_account |-> <<[VALID_ACCOUNT EXCEPT !.threshold = 0]>>]}

ValidatorContents ==
    {None,
     [established_account |-> <<VALID_ACCOUNT>>, validator_account |-> <<VALID_VALIDATOR>>],
     [established_account |-> <<VALID_ACCOUNT>>, validator_account |-> <<VALID_VALIDATOR>>,
      bond |-> <<VALID_BOND>>],
     [established_account |-> <<VALID_ACCOUNT>>,
      validator_account |-> <<[VALID_VALIDATOR EXCEPT !.commission_rate = Dec(2)]>>],
     [established_account |-> <<VALID_ACCOUNT>>,
      validator_account |-> <<[VALID_VALIDATOR EXCEPT !.commission_rate = NotDec]>>]}

BondContents ==
    {None, EmptyDict,
     [bond |-> <<VALID_BOND>>],
     [bond |-> <<[VALID_BOND EXCEPT !.amount = Dec(2)]>>],
     [bond |-> <<[VALID_BOND EXCEPT !.amount = NotDec]>>]}

\* read_unsafe_toml(file_path), over the contents the file may have.
read_unsafe_toml(file) ==
    CASE has_suffix(file, "-account.toml") -> AccountContents
      [] has_suffix(file, "-validator.toml") -> ValidatorContents
      [] OTHER -> BondContents

Line(m, file, n) == [msg |-> m, file |-> file, n |-> n]

Init ==
    /\ pc = "check_no_deleted_or_modified_files"
    /\ environ \in Environments
    /\ balances_file \in BalancesFiles
    /\ changed_files = <<>>
    /\ idx = 0
    /\ flags = [validators |-> <<>>, bonds |-> <<>>, accounts |-> <<>>]
    /\ alias = <<>>
    /\ stdout = <<>>
    /\ balances_loads = 0
    /\ runs = <<>>
    /\ fault = ""
    /\ toml = None
    /\ nam_balances = <<>>
    /\ ret = ""

unit_vars == <<toml, nam_balances, ret>>

\* check_no_deleted_or_modified_files: exit(1) when git fails or names a file.
CheckNoDeletedOrModifiedFiles ==
    /\ pc = "check_no_deleted_or_modified_files"
    /\ \E returncode \in {0, 1}, deleted_files \in {<<>>, <<F_README>>} :
          pc' = IF returncode > 0 \/ deleted_files # <<>> THEN "exit1" ELSE "read_env"
    /\ UNCHANGED <<main_vars, unit_vars>>

\* read_env: os.environ.get of the three flags, None for an absent one.
ReadEnv ==
    /\ pc = "read_env"
    /\ flags' = [validators |-> environ["CAN_ADD_VALIDATORS"],
                 bonds |-> environ["CAN_ADD_BONDS"],
                 accounts |-> environ["CAN_ADD_ACCOUNTS"]]
    /\ pc' = "get_all_created_files"
    /\ UNCHANGED <<environ, balances_file, changed_files, idx, alias, stdout,
                   balances_loads, runs, fault, unit_vars>>

\* get_all_created_files: exit(1) when git fails, else the added paths.
GetAllCreatedFiles ==
    /\ pc = "get_all_created_files"
    /\ \E returncode \in {0, 1}, files \in FileLists :
          IF returncode > 0
          THEN pc' = "exit1" /\ UNCHANGED changed_files
          ELSE pc' = "get_alias" /\ changed_files' = files
    /\ UNCHANGED <<environ, balances_file, idx, flags, alias, stdout,
                   balances_loads, runs, fault, unit_vars>>

\* get_alias: exit(1) when ALIAS is absent.
GetAlias ==
    /\ pc = "get_alias"
    /\ IF environ["ALIAS"] = <<>>
       THEN pc' = "exit1" /\ UNCHANGED alias
       ELSE pc' = "print_found" /\ alias' = environ["ALIAS"]
    /\ UNCHANGED <<environ, balances_file, changed_files, idx, flags, stdout,
                   balances_loads, runs, fault, unit_vars>>

\* print("Found {} file changed/added.") and the start of the for loop.
PrintFound ==
    /\ pc = "print_found"
    /\ stdout' = Append(stdout, Line("Found", "", Len(changed_files)))
    /\ idx' = 1
    /\ pc' = "for"
    /\ UNCHANGED <<environ, balances_file, changed_files, flags, alias,
                   balances_loads, runs, fault, unit_vars>>

\* The loop body up to the call of validate_toml.
ForFile ==
    /\ pc = "for"
    /\ idx <= Len(changed_files)
    /\ LET file == changed_files[idx] IN
       IF ~matches_pattern(file)
       THEN /\ stdout' = Append(stdout, Line("doesn't match pattern", file, 0))
            /\ pc' = "exit1"
            /\ UNCHANGED idx
       ELSE IF ~alias_in_file(alias[1], file)
       THEN /\ pc' = "exit1"
            /\ UNCHANGED <<stdout, idx>>
       ELSE /\ stdout' = Append(stdout, Line("is allowed", file, 0))
            /\ IF scripts_or_yml(file)
               THEN pc' = "for" /\ idx' = idx + 1
               ELSE pc' = "validate_toml" /\ UNCHANGED idx
    /\ UNCHANGED <<environ, balances_file, changed_files, flags, alias,
                   balances_loads, runs, fault, unit_vars>>

\* The loop is over: main returns and the process exits with status 0.
MainReturn ==
    /\ pc = "for"
    /\ idx > Len(changed_files)
    /\ pc' = "returned"
    /\ UNCHANGED <<main_vars, unit_vars>>

\* The track validate_toml takes for a file, "none" for the else branch.
track_of(file) ==
    IF has_suffix(file, "-account.toml") /\ truthy(flags.accounts) THEN "account"
    ELSE IF has_suffix(file, "-validator.toml") /\ truthy(flags.validators)
    THEN "validator"
    ELSE IF has_suffix(file, "-bond.toml") /\ truthy(flags.bonds) THEN "bond"
    ELSE "none"

\* The guard before the first print of a track: `is None` on the account
\* and validator tracks, `not bonds_toml` on the bond track.
load_failed(track, loaded) ==
    IF track = "bond" THEN loaded = None \/ loaded = EmptyDict ELSE loaded = None

\* The validator a track calls.
validator_of(track, loaded, balances) ==
    CASE track = "account" -> check_if_account_is_valid(loaded)
      [] track = "validator" -> check_if_validator_is_valid(loaded)
      [] track = "bond" -> check_if_bond_is_valid(loaded, balances)

\* What a track prints: NOT valid when loading failed, then (the validator
\* is called; nothing more when it raises) NOT valid when it returned False,
\* then valid.
track_output(file, failed, result) ==
    (IF failed THEN <<Line("is NOT valid.", file, 0)>> ELSE <<>>)
    \o (IF result \notin {"True", "False"} THEN <<>>
        ELSE (IF result = "False" THEN <<Line("is NOT valid.", file, 0)>> ELSE <<>>)
             \o <<Line("is valid.", file, 0)>>)

Run(file, track, loaded, called, result) ==
    [file |-> file, track |-> track, toml |-> loaded, called |-> called,
     result |-> result]

\* validate_toml(file, ...), the whole call.
ValidateToml ==
    /\ pc = "validate_toml"
    /\ balances_loads' = balances_loads + 1
    /\ LET file == changed_files[idx] IN
       IF balances_file = None \/ "token" \notin DOMAIN balances_file
       THEN /\ pc' = "exception"
            /\ fault' = "balances"
            /\ UNCHANGED <<stdout, runs, idx>>
       ELSE IF track_of(file) = "none"
       THEN /\ runs' = Append(runs, Run(file, "none", None, FALSE, "False"))
            /\ pc' = "for"
            /\ idx' = idx + 1
            /\ UNCHANGED <<stdout, fault>>
       ELSE \E loaded \in read_unsafe_toml(file) :
              LET track == track_of(file)
                  result == validator_of(track, loaded, balances_file.token.NAM)
              IN /\ stdout' = stdout \o track_output(file, load_failed(track, loaded), result)
                 /\ runs' = Append(runs, Run(file, track, loaded, TRUE, result))
                 /\ IF result \in {"True", "False"}
                    THEN pc' = "for" /\ idx' = idx + 1 /\ UNCHANGED fault
                    ELSE pc' = "exception" /\ fault' = "record" /\ UNCHANGED idx
    /\ UNCHANGED <<environ, balances_file, changed_files, flags, alias, unit_vars>>

Next ==
    \/ CheckNoDeletedOrModifiedFiles
    \/ ReadEnv
    \/ GetAllCreatedFiles
    \/ GetAlias
    \/ PrintFound
    \/ ForFile
    \/ MainReturn
    \/ ValidateToml

Spec == Init /\ [][Next]_vars

-----------------------------------------------------------------------------
(* Properties of the validators.                                           *)

Reverse(s) == [i \in 1..Len(s) |-> s[Len(s) + 1 - i]]

\* The account entry e meets every rule of the AccountValidator.
AccountEntryOK(e) ==
    /\ {"vp", "threshold", "public_keys"} \subseteq DOMAIN e
    /\ e.vp = "vp_user"
    /\ e.threshold >= 1
    /\ Len(e.public_keys) >= e.threshold
    /\ \A k \in 1..Len(e.public_keys) : bech32_decode(e.public_keys[k]) = <<"tnam">>

\* C9: for an account record with an established_account sequence,
\* check_if_account_is_valid returns true exactly when every entry has vp,
\* threshold and public_keys, vp "vp_user", threshold >= 1, at least
\* threshold public keys and only keys of prefix "tnam"; an entry with
\* threshold 0 makes the record fail; the verdict is the same with the
\* entries in reverse order.
C9_AccountVerdict ==
    (/\ pc = "account_called"
     /\ toml # None
     /\ "established_account" \in DOMAIN toml)
    => LET es == toml.established_account IN
       /\ ret \in {"True", "False"}
       /\ (ret = "True") <=> (\A i \in 1..Len(es) : AccountEntryOK(es[i]))
       /\ (\E i \in 1..Len(es) :
              "threshold" \in DOMAIN es[i] /\ es[i].threshold = 0)
          => ret = "False"
       /\ check_if_account_is_valid([established_account |-> Reverse(es)]) = ret

\* A record of two entries, one with threshold 2 and two keys, was accepted.
C9_Witness ==
    /\ pc = "account_called"
    /\ toml # None
    /\ "established_account" \in DOMAIN toml
    /\ ret = "True"
    /\ Len(toml.established_account) = 2
    /\ AccountEntryOK(toml.established_account[2])
    /\ toml.established_account[2].threshold = 2
    /\ Len(toml.established_account[2].public_keys) = 2

\* The bond record meets every rule of the BondValidator but the balance rule.
BondShapeOK(d) ==
    /\ d # None
    /\ "bond" \in DOMAIN d
    /\ \A i \in 1..Len(d.bond) :
          /\ {"source", "validator", "amount", "signatures"} \subseteq DOMAIN d.bond[i]
          /\ Len(d.bond[i].signatures) > 0
          /\ d.bond[i].amount.t # "str"
          /\ bech32_decode(d.bond[i].source) = <<"tkpnam">>
          /\ bech32_decode(d.bond[i].validator) = <<"tnam">>

\* The balance recorded for source, 0 when the table has no such source.
RecordedBalance(source) ==
    IF source \in DOMAIN nam_balances THEN nam_balances[source].n ELSE 0

\* The balance of the entry's source is non-zero and covers its amount.
BalanceCovers(e) ==
    /\ e.amount.t = "dec"
    /\ RecordedBalance(e.source) # 0
    /\ RecordedBalance(e.source) >= e.amount.n

\* C4: for a bond record whose entries have all four fields, a non-empty
\* signatures list, a parsable amount, a "tkpnam" source and a "tnam"
\* validator, check_if_bond_is_valid returns true exactly when for every
\* entry the balance of source (0 when absent) is non-zero and is at least
\* amount.
C4_BondBalanceRule ==
    (pc = "bond_called" /\ BondShapeOK(toml))
    => /\ ret \in {"True", "False"}
       /\ (ret = "True") <=> (\A i \in 1..Len(toml.bond) : BalanceCovers(toml.bond[i]))

\* A bond whose amount equals the non-zero balance of its source was accepted.
C4_Witness ==
    /\ pc = "bond_called"
    /\ BondShapeOK(toml)
    /\ Len(toml.bond) = 2
    /\ toml.bond[1].amount = Dec(1)
    /\ RecordedBalance(toml.bond[1].source) = 1
    /\ ret = "True"

\* C5: every entry of a bond record that check_if_bond_is_valid accepts has
\* an amount greater than or equal to 0.
C5_AcceptedAmountNonNegative ==
    (pc = "bond_called" /\ ret = "True")
    => \A i \in 1..Len(toml.bond) :
          toml.bond[i].amount.t = "dec" /\ toml.bond[i].amount.n >= 0

\* C6: check_if_validator_is_valid returns false for every validator record
\* that carries a top-level "bond" key, whatever its established_account and
\* validator_account parts hold.
C6_BondKeyRejected ==
    (pc = "validator_called" /\ toml # None /\ "bond" \in DOMAIN toml)
    => ret = "False"

-----------------------------------------------------------------------------
(* Properties of validate_toml and main.                                   *)

\* The number of lines <file> <msg> printed so far.
Printed(file, m) ==
    Cardinality({i \in 1..Len(stdout) : stdout[i] = Line(m, file, 0)})

\* The terminal states of a candidate file, as the output shows them.
ReportedValid(file) == Printed(file, "is valid.") > 0
ReportedInvalid(file) == Printed(file, "is NOT valid.") > 0
Skipped(file) ==
    \/ \E i \in 1..Len(runs) : runs[i].file = file /\ runs[i].track = "none"
    \/ scripts_or_yml(file) /\ Printed(file, "is allowed") > 0

\* C1: on a matching, enabled track, a file whose loading returned None is
\* reported Invalid only, the validator is not invoked for it, and no
\* exception leaves validate_toml.
C1_LoadFailureIsInvalid ==
    \A i \in 1..Len(runs) :
       (runs[i].track # "none" /\ runs[i].toml = None)
       => /\ ~runs[i].called
          /\ ReportedInvalid(runs[i].file)
          /\ ~ReportedValid(runs[i].file)
          /\ runs[i].result \in {"True", "False"}

\* C2: for a file validated on a matching, enabled track exactly one outcome
\* line is printed: "is valid." when the validator returned true,
\* "is NOT valid." when it returned false.
C2_OneOutcomeLine ==
    \A i \in 1..Len(runs) :
       (runs[i].track # "none" /\ runs[i].result \in {"True", "False"})
       => /\ Printed(runs[i].file, "is valid.")
               + Printed(runs[i].file, "is NOT valid.") = 1
          /\ ReportedValid(runs[i].file) <=> (runs[i].result = "True")

\* C3: a run that was not ended by a fatal error (an exit(1) of main, an
\* unreadable balances file) has brought every candidate file to one of
\* Valid, Invalid and Skipped.
C3_PerFileErrorsIsolated ==
    (pc \in {"returned", "exception"} /\ fault # "balances")
    => \A i \in 1..Len(changed_files) :
          \/ ReportedValid(changed_files[i])
          \/ ReportedInvalid(changed_files[i])
          \/ Skipped(changed_files[i])

\* A numeric field of the record holds a text that is no decimal.
HasUnparsableNumber(track, d) ==
    /\ d # None
    /\ \/ /\ track = "validator"
          /\ "validator_account" \in DOMAIN d
          /\ \E i \in 1..Len(d.validator_account) :
                \/ /\ "commission_rate" \in DOMAIN d.validator_account[i]
                   /\ d.validator_account[i].commission_rate = NotDec
                \/ /\ "max_commission_rate_change" \in DOMAIN d.validator_account[i]
                   /\ d.validator_account[i].max_commission_rate_change = NotDec
       \/ /\ track = "bond"
          /\ "bond" \in DOMAIN d
          /\ \E i \in 1..Len(d.bond) :
                "amount" \in DOMAIN d.bond[i] /\ d.bond[i].amount = NotDec

\* C7: a validator or bond record with a commission_rate,
\* max_commission_rate_change or amount that is no decimal makes its
\* validator return false, and the file is reported Invalid.
C7_UnparsableNumberRejected ==
    \A i \in 1..Len(runs) :
       HasUnparsableNumber(runs[i].track, runs[i].toml)
       => runs[i].result = "False" /\ ReportedInvalid(runs[i].file)

\* C8: the balances table is loaded exactly once per run: never more than
\* once, and once in every run that main returns from; no step changes it.
C8_BalancesLoadedOnce ==
    /\ balances_loads <= 1
    /\ pc = "returned" => balances_loads = 1

\* C10: when ALIAS or one of the capability flags is absent from the
\* environment the run ends with a non-zero status, and no file is
\* validated or reported Valid.
C10_MissingConfigIsFatal ==
    (\E n \in ENV_NAMES : environ[n] = <<>>)
    => /\ pc # "returned"
       /\ runs = <<>>
       /\ \A i \in 1..Len(changed_files) : ~ReportedValid(changed_files[i])

====
